---- MODULE Spec2Model ----
(***************************************************************************)
(* A model of fusedav's local file cache, src/src/ldb-filecache.c.         *)
(*                                                                         *)
(* Call threads (Procs) open a remote path, operate on the session handle  *)
(* and release it.  A resolve-open runs ldb_get_fresh_fd, whose blocking   *)
(* calls (store get, remote request, mkstemp + body transfer, store put,   *)
(* unlink, open by name) are separate steps, so that the threads           *)
(* interleave between them exactly where the code holds no lock.           *)
(*                                                                         *)
(* Representation.  A cache file is known by the name mkstemp gave it; the *)
(* model numbers the names 1, 2, ... in order of creation and never hands  *)
(* out a name twice.  A validator (ETag) of the remote store is a strong   *)
(* validator: it is determined by the content, and is written as the       *)
(* content itself.  The remote store answers 304 exactly when the          *)
(* presented validator is the one of its current content.                  *)
(*                                                                         *)
(* Time.  The code only ever subtracts a last_server_update from           *)
(* time(NULL) and compares with REFRESH_INTERVAL, so the clock is kept     *)
(* with a moving origin: time(NULL) is Now, every stored timestamp is      *)
(* relative to it, and a tick of the clock moves every timestamp one       *)
(* second into the past.  A timestamp older than REFRESH_INTERVAL is stale *)
(* whatever its age, so ages stop at Horizon = REFRESH_INTERVAL + 1.  The  *)
(* copy of a record in a thread's locals is not aged: the only read of its *)
(* timestamp is the freshness test, made in the step that fetches it.      *)
(***************************************************************************)
EXTENDS Integers, Sequences, FiniteSets, TLC

\* ------------------------------------------------------------- bounds
\* The calls of ldb_filecache_open one behaviour has.
MaxOpens == 3
MaxLen == 1
\* The largest size a caller truncates to.
MaxTrunc == 0
\* The failures of the environment (store, disk, network) one behaviour has.
MaxFaults == 1

\* ------------------------------------------------- program constants
REFRESH_INTERVAL == 3
O_RDONLY == 0
O_WRONLY == 1
O_RDWR == 2
EBADF == 9
EIO == 5
ENOENT == 2
\* The name left in the buffer when mkstemp fails: it names no file.
TemplateName == 0
\* time(NULL), the origin of the clock.
Now == 0
Horizon == REFRESH_INTERVAL + 1

\* The call threads; Main is the one of a single-threaded run.
Main == "t1"
Procs == {"t1", "t2"}
Paths == {"/a.txt"}
Bytes == {1}
AccessModes == {O_RDONLY, O_WRONLY, O_RDWR}

NULL == [null |-> TRUE]
\* A descriptor: the file it is open on and whether it was opened read-write.
NoFd == [file |-> -1, rdwr |-> FALSE]

Min(a, b) == IF a < b THEN a ELSE b
Max(a, b) == IF a > b THEN a ELSE b

\* The buffers a caller writes.
Bufs == UNION {[1..n -> Bytes] : n \in 1..MaxLen}

VARIABLES
    store,    \* the leveldb records "fc:<path>": a pdata or NULL
    remote,   \* the remote store: the current content of each path
    statc,    \* the stat cache: st_size of each path, -1 when never set
    files,    \* the cache files in order of creation: content and link
    pc,       \* where each call thread is
    sdata,    \* each thread's session handle, NULL when none is attached
    loc,      \* the locals of each thread's ldb_get_fresh_fd call
    faults,   \* the failures of the environment so far
    opens     \* the calls of ldb_filecache_open so far

vars == <<store, remote, statc, files, pc, sdata, loc, faults, opens>>

\* ----------------------------------------------------- pure helpers

\* x & y on naturals.
RECURSIVE BitAnd(_, _)
BitAnd(x, y) ==
    IF x = 0 \/ y = 0 THEN 0
    ELSE (IF x % 2 = 1 /\ y % 2 = 1 THEN 1 ELSE 0) + 2 * BitAnd(x \div 2, y \div 2)

\* The ETag the remote store gives a content.
ETag(body) == body

\* pread(fd, buf, size, offset) on a file of content c.
PRead(c, size, offset) ==
    IF offset >= Len(c) THEN <<>>
    ELSE [i \in 1..Min(size, Len(c) - offset) |-> c[offset + i]]

\* pwrite(fd, buf, size, offset): holes read as zero.
PWrite(c, b, offset) ==
    [i \in 1..Max(Len(c), offset + Len(b)) |->
        IF i > offset /\ i <= offset + Len(b) THEN b[i - offset]
        ELSE IF i <= Len(c) THEN c[i] ELSE 0]

\* ftruncate(fd, s).
FTruncate(c, s) == [i \in 1..s |-> IF i <= Len(c) THEN c[i] ELSE 0]

\* A name that has a directory link.
Linked(name) == name \in 1..Len(files) /\ files[name].linked

\* open(filename, O_APPEND): a read-only descriptor, or -1 when no such name.
OpenByName(name) ==
    IF Linked(name) THEN [file |-> name, rdwr |-> FALSE] ELSE NoFd

\* The file a descriptor is open on holds these bytes.
FdContent(fd) == files[fd.file].content

\* unlink(name): the link goes, the content stays for the open descriptors.
Unlink(fs, name) ==
    IF name \in 1..Len(fs) THEN [fs EXCEPT ![name].linked = FALSE] ELSE fs

\* The files a thread holds a descriptor on: its handle's and the one its
\* ldb_get_fresh_fd call has in ret_fd.
HeldBy(q) ==
    {f \in 1..Len(files) :
        \/ sdata[q] # NULL /\ sdata[q].fd.file = f
        \/ loc[q].ret_fd.file = f}

\* The files the threads other than p hold a descriptor on.
HeldByOthers(p) == UNION {HeldBy(q) : q \in Procs \ {p}}

\* A file with no link and no descriptor is deleted: its bytes are gone.
Reclaim(fs, held) ==
    [f \in 1..Len(fs) |->
        IF ~fs[f].linked /\ f \notin held THEN [fs[f] EXCEPT !.content = <<>>]
        ELSE fs[f]]

\* ----------------------------------------------------------- state

\* What a call returns: its value and the errno it sets (0 when it sets none).
Returned(value, err) == [ret |-> value, errno |-> err]

\* One more call of ldb_filecache_open; a behaviour has at most MaxOpens.
Called == opens < MaxOpens /\ opens' = opens + 1

\* A step of the environment that succeeds (ok) or fails; a behaviour has at
\* most MaxFaults failures.
Env(ok) ==
    IF ok THEN faults' = faults ELSE faults < MaxFaults /\ faults' = faults + 1

LocInit ==
    [path |-> "", flags |-> 0, pdata |-> NULL, code |-> 0, body |-> <<>>,
     ret_fd |-> NoFd, old_filename |-> TemplateName, unlink_old |-> FALSE]

Init ==
    /\ store = [q \in Paths |-> NULL]
    /\ remote = [q \in Paths |-> <<1>>]
    /\ statc = [q \in Paths |-> -1]
    /\ files = <<>>
    /\ pc = [p \in Procs |-> "idle"]
    /\ sdata = [p \in Procs |-> NULL]
    /\ loc = [p \in Procs |-> LocInit]
    /\ faults = 0
    /\ opens = 0

\* ldb_filecache_pdata_get: the record, or NULL on a miss and on a store error.
ldb_filecache_pdata_get(path, get_ok) ==
    IF get_ok THEN store[path] ELSE NULL

\* ldb_filecache_pdata_set: leveldb_put, which may fail and leave the record.
ldb_filecache_pdata_set(path, pdata, put_ok) ==
    IF put_ok /\ pdata # NULL THEN [store EXCEPT ![path] = pdata] ELSE store

\* The access flags of ldb_filecache_open, lines 231-232.
Readable(flags) == BitAnd(flags, O_RDONLY) # 0 \/ BitAnd(flags, O_RDWR) # 0
Writable(flags) == BitAnd(flags, O_WRONLY) # 0 \/ BitAnd(flags, O_RDWR) # 0

\* What ldb_filecache_open returns for a descriptor (lines 234-249).
OpenRet(fd) == IF fd.file > 0 THEN Returned(0, 0) ELSE Returned(-1, 0)

\* The end of ldb_filecache_open, lines 231-249: attach the handle when the
\* descriptor is valid, fail otherwise.  The handle also carries the path its
\* caller passes to sync and release, and three pieces of history that are
\* not program state: synced, a sync of the handle has succeeded with no
\* successful write since; sync_failed, the last sync of the handle failed;
\* and opened, the bytes its file held at the open.
Attach(p, fd, flags) ==
    /\ loc' = [loc EXCEPT ![p] = LocInit]
    /\ IF OpenRet(fd).ret = 0
       THEN /\ sdata' = [sdata EXCEPT ![p] =
                   [fd |-> fd, filename |-> TemplateName,
                    readable |-> Readable(flags), writable |-> Writable(flags),
                    modified |-> FALSE, path |-> loc[p].path, synced |-> FALSE,
                    sync_failed |-> FALSE, opened |-> FdContent(fd)]]
            /\ pc' = [pc EXCEPT ![p] = "open"]
       ELSE /\ sdata' = [sdata EXCEPT ![p] = NULL]
            /\ pc' = [pc EXCEPT ![p] = "idle"]

\* new_cache_file: the name mkstemp gives a new, empty, linked file, or the
\* template when it fails.
new_cache_file(mk_ok) ==
    IF mk_ok THEN Len(files) + 1 ELSE TemplateName

\* mkstemp's effect on the cache directory.
CreateFile(fs, name) ==
    IF name = TemplateName THEN fs ELSE Append(fs, [content |-> <<>>, linked |-> TRUE])

\* The descriptor new_cache_file leaves in *fd: read-write, or -1.
StagingFd(name) ==
    IF name = TemplateName THEN NoFd ELSE [file |-> name, rdwr |-> TRUE]

\* ------------------------------------------------- ldb_filecache_open

\* session_get fails (lines 191-195): -EIO.  The jump to fail: frees sdata
\* before it was ever assigned, which is undefined: the call returns, or the
\* process dies with all its threads and their memory.
OpenNoSession(p, path, survives) ==
    /\ pc[p] = "idle"
    /\ Called
    /\ Env(FALSE)
    /\ IF survives
       THEN /\ sdata' = [sdata EXCEPT ![p] = NULL]
            /\ UNCHANGED <<pc, loc>>
       ELSE /\ pc' = [q \in Procs |-> "crashed"]
            /\ sdata' = [q \in Procs |-> NULL]
            /\ loc' = [q \in Procs |-> LocInit]
    /\ UNCHANGED <<store, remote, statc, files>>

\* replace = true (lines 205-225 and 231-249): a new private file, the stat
\* cache set to size 0, the handle marked modified.
OpenReplace(p, path, flags, mk_ok) ==
    /\ pc[p] = "idle"
    /\ Called
    /\ Env(mk_ok)
    /\ LET name == new_cache_file(mk_ok)
       IN  /\ files' = CreateFile(files, name)
           /\ IF name = TemplateName
              THEN /\ sdata' = [sdata EXCEPT ![p] = NULL]
                   /\ UNCHANGED <<pc, statc>>
              ELSE /\ sdata' = [sdata EXCEPT ![p] =
                          [fd |-> StagingFd(name), filename |-> name,
                           readable |-> Readable(flags), writable |-> Writable(flags),
                           modified |-> TRUE, path |-> path, synced |-> FALSE,
                           sync_failed |-> FALSE, opened |-> <<>>]]
                   /\ statc' = [statc EXCEPT ![path] = 0]
                   /\ pc' = [pc EXCEPT ![p] = "open"]
    /\ UNCHANGED <<store, remote, loc>>

\* replace = false: ldb_get_fresh_fd up to the freshness test (lines 90-103).
OpenResolve(p, path, flags, get_ok) ==
    /\ pc[p] = "idle"
    /\ Called
    /\ Env(get_ok)
    /\ LET pdata == ldb_filecache_pdata_get(path, get_ok)
           fresh == pdata # NULL /\ (Now - pdata.last_server_update) <= REFRESH_INTERVAL
       IN  /\ loc' = [loc EXCEPT ![p] =
                  [LocInit EXCEPT !.path = path, !.flags = flags, !.pdata = pdata]]
           /\ pc' = [pc EXCEPT ![p] = IF fresh THEN "fresh_open" ELSE "request"]
    /\ sdata' = [sdata EXCEPT ![p] = NULL]
    /\ UNCHANGED <<store, remote, statc, files>>

ldb_filecache_open(p) ==
    \E path \in Paths :
        \/ \E survives \in BOOLEAN : OpenNoSession(p, path, survives)
        \/ \E flags \in AccessModes, mk_ok \in BOOLEAN : OpenReplace(p, path, flags, mk_ok)
        \/ \E flags \in AccessModes, get_ok \in BOOLEAN : OpenResolve(p, path, flags, get_ok)

\* --------------------------------------------------- ldb_get_fresh_fd

\* The cached file is fresh (lines 100-103): open it by name.
FreshOpen(p) ==
    /\ pc[p] = "fresh_open"
    /\ Attach(p, OpenByName(loc[p].pdata.filename), loc[p].flags)
    /\ UNCHANGED <<store, remote, statc, files, faults, opens>>

\* The status the remote store answers a GET with: 304 when the presented
\* validator is the one of its content, 200 with the content otherwise.
RemoteStatus(path, pdata) ==
    IF pdata # NULL /\ pdata.etag = ETag(remote[path]) THEN 304 ELSE 200

RequestOutcomes == {"status", "retry", "create_failed", "begin_failed", "other_status"}

\* ne_request_create and ne_begin_request (lines 105-121), and the statuses
\* neither 304 nor 200 with ne_end_request (lines 173-174): these go to the
\* finish label with ret_fd still -1.
Request(p, out) ==
    /\ pc[p] = "request"
    /\ Env(out \in {"status", "retry"})
    /\ CASE out = "status" ->
              LET code == RemoteStatus(loc[p].path, loc[p].pdata)
              IN  /\ loc' = [loc EXCEPT ![p].code = code,
                                        ![p].body = IF code = 200 THEN remote[loc[p].path]
                                                    ELSE <<>>]
                  /\ pc' = [pc EXCEPT ![p] = IF code = 304 THEN "on304" ELSE "on200"]
                  /\ UNCHANGED sdata
         [] out = "retry" -> UNCHANGED <<loc, pc, sdata>>
         [] OTHER -> /\ pc' = [pc EXCEPT ![p] = "finish"]
                     /\ UNCHANGED <<loc, sdata>>
    /\ UNCHANGED <<store, remote, statc, files, opens>>

\* A finish label that also removes the cache file of the entry it read.
FinishUnlinking(p) ==
    /\ pc[p] = "finish"
    /\ Attach(p, loc[p].ret_fd, loc[p].flags)
    /\ files' = IF loc[p].pdata = NULL THEN files
                ELSE Unlink(files, loc[p].pdata.filename)
    /\ UNCHANGED <<store, remote, statc, faults, opens>>

\* The finish label reached with no descriptor (lines 176-181) and the end
\* of ldb_filecache_open (lines 227-249): the request and the record read
\* are freed, ret_fd is returned and the open fails.
Finish(p) ==
    /\ pc[p] = "finish"
    /\ Attach(p, loc[p].ret_fd, loc[p].flags)
    /\ UNCHANGED <<store, remote, statc, files, faults, opens>>

\* 304 (lines 122-130): stamp the record and put it.
On304(p, put_ok) ==
    /\ pc[p] = "on304"
    /\ Env(put_ok)
    /\ LET pdata == [loc[p].pdata EXCEPT !.last_server_update = Now]
       IN  /\ loc' = [loc EXCEPT ![p].pdata = pdata]
           /\ store' = ldb_filecache_pdata_set(loc[p].path, pdata, put_ok)
    /\ pc' = [pc EXCEPT ![p] = "open304"]
    /\ UNCHANGED <<remote, statc, files, sdata, opens>>

\* 304 (lines 133-134): open the cached file by name.
Open304(p) ==
    /\ pc[p] = "open304"
    /\ Attach(p, OpenByName(loc[p].pdata.filename), loc[p].flags)
    /\ UNCHANGED <<store, remote, statc, files, faults, opens>>

\* 200 (lines 136-159): the record to commit, a new cache file, and the body
\* read into it; n bytes arrive (all of them, or fewer when the transfer
\* fails), none when there is no file.  Neither result is looked at.
On200(p, mk_ok, n) ==
    /\ pc[p] = "on200"
    /\ n \in 0..Len(loc[p].body)
    /\ ~mk_ok => n = 0
    /\ Env(mk_ok /\ n = Len(loc[p].body))
    /\ LET name == new_cache_file(mk_ok)
           old == loc[p].pdata
           pdata == IF old = NULL
                    THEN [filename |-> name, etag |-> ETag(loc[p].body),
                          last_server_update |-> Now]
                    ELSE [old EXCEPT !.filename = name]
       IN  /\ files' = IF name = TemplateName THEN files
                       ELSE [CreateFile(files, name) EXCEPT
                                ![name].content = SubSeq(loc[p].body, 1, n)]
           /\ loc' = [loc EXCEPT ![p].pdata = pdata,
                                 ![p].ret_fd = StagingFd(name),
                                 ![p].old_filename =
                                     IF old = NULL THEN TemplateName ELSE old.filename,
                                 ![p].unlink_old = (old # NULL)]
    /\ pc' = [pc EXCEPT ![p] = "commit"]
    /\ UNCHANGED <<store, remote, statc, sdata, opens>>

\* 200 (lines 161-163): stamp the record and put it; with nothing to unlink
\* the call ends here.
Commit(p, put_ok) ==
    /\ pc[p] = "commit"
    /\ Env(put_ok)
    /\ LET pdata == [loc[p].pdata EXCEPT !.last_server_update = Now]
       IN  /\ store' = ldb_filecache_pdata_set(loc[p].path, pdata, put_ok)
           /\ IF loc[p].unlink_old
              THEN /\ loc' = [loc EXCEPT ![p].pdata = pdata]
                   /\ pc' = [pc EXCEPT ![p] = "unlink"]
                   /\ UNCHANGED sdata
              ELSE Attach(p, loc[p].ret_fd, loc[p].flags)
    /\ UNCHANGED <<remote, statc, files, opens>>

\* 200 (lines 168-170): unlink the old cache file, whatever the put returned.
UnlinkOld(p, ul_ok) ==
    /\ pc[p] = "unlink"
    /\ Env(ul_ok)
    /\ files' = IF ul_ok
                THEN Reclaim(Unlink(files, loc[p].old_filename),
                             HeldByOthers(p) \cup {loc[p].ret_fd.file})
                ELSE files
    /\ Attach(p, loc[p].ret_fd, loc[p].flags)
    /\ UNCHANGED <<store, remote, statc, opens>>

\* ------------------------------------------- read, write, truncate

\* The bytes ldb_filecache_read leaves in buf.
ReadBuf(sd, size, offset) == PRead(FdContent(sd.fd), size, offset)

\* What ldb_filecache_read returns: the number of bytes pread gave.
ReadRet(sd, size, offset) == Returned(Len(ReadBuf(sd, size, offset)), 0)

\* ldb_filecache_read: pread on the handle's descriptor; nothing changes.
ldb_filecache_read(p, size, offset) ==
    /\ pc[p] = "open"
    /\ ReadRet(sdata[p], size, offset).ret >= 0
    /\ UNCHANGED vars

\* What ldb_filecache_write returns: 0 and EBADF on a handle that is not
\* writable; otherwise what pwrite gives, which fails with EBADF on a
\* descriptor opened read-only and may fail on the disk (wr_ok false).
WriteRet(sd, b, wr_ok) ==
    IF ~sd.writable THEN Returned(0, EBADF)
    ELSE IF ~sd.fd.rdwr THEN Returned(-EBADF, EBADF)
    ELSE IF ~wr_ok THEN Returned(-EIO, EIO)
    ELSE Returned(Len(b), 0)

\* A write that is let through to pwrite whatever the handle's writable
\* flag says.
WritesUngated(sd, wr_ok) == sd.fd.rdwr /\ wr_ok

\* Whether ldb_filecache_write gets to a pwrite that succeeds (lines 315-328).
Writes(sd, wr_ok) == sd.writable /\ sd.fd.rdwr /\ wr_ok

\* The cache files after ldb_filecache_write.
WriteFiles(sd, b, offset, wr_ok) ==
    IF Writes(sd, wr_ok)
    THEN [files EXCEPT ![sd.fd.file].content = PWrite(@, b, offset)]
    ELSE files

\* The handle after ldb_filecache_write: modified once pwrite succeeds.
Written(sd, wr_ok) ==
    IF Writes(sd, wr_ok) THEN [sd EXCEPT !.modified = TRUE, !.synced = FALSE]
    ELSE sd

ldb_filecache_write(p, b, offset, wr_ok) ==
    /\ pc[p] = "open"
    /\ offset + Len(b) <= MaxLen
    /\ Env(wr_ok \/ ~(sdata[p].writable /\ sdata[p].fd.rdwr))
    /\ files' = WriteFiles(sdata[p], b, offset, wr_ok)
    /\ sdata' = [sdata EXCEPT ![p] = Written(sdata[p], wr_ok)]
    /\ UNCHANGED <<store, remote, statc, pc, loc, opens>>

\* What ldb_filecache_truncate returns: what ftruncate gives, which fails on
\* a descriptor opened read-only.
TruncateRet(sd) == IF sd.fd.rdwr THEN Returned(0, 0) ELSE Returned(-1, EBADF)

ldb_filecache_truncate(p, s) ==
    /\ pc[p] = "open"
    /\ files' = IF TruncateRet(sdata[p]).ret = 0
                THEN [files EXCEPT ![sdata[p].fd.file].content = FTruncate(@, s)]
                ELSE files
    /\ UNCHANGED <<store, remote, statc, pc, sdata, loc, faults, opens>>

\* ------------------------------------------------- sync and release

SyncOutcomes == {"ok", "lseek_failed", "no_session", "put_failed"}

\* Whether ldb_filecache_sync has work to do (lines 422-438).
Dirty(sd) == sd.writable /\ sd.modified

\* Whether ldb_filecache_sync gets as far as ne_put (lines 440-468).
Uploads(sd, out) == Dirty(sd) /\ out \in {"ok", "put_failed"}

\* What ldb_filecache_sync returns, and the errno it sets.
SyncRet(sd, out) ==
    IF ~Dirty(sd) \/ out = "ok" THEN Returned(0, 0)
    ELSE IF out = "lseek_failed" THEN Returned(-1, 0)
    ELSE IF out = "no_session" THEN Returned(-1, EIO)
    ELSE Returned(-1, ENOENT)

\* ldb_filecache_sync's effect outside the handle: a PUT of the whole file
\* and the stat cache set to its size.
SyncEffect(p, out) ==
    LET sd == sdata[p]
        done == Uploads(sd, out) /\ out = "ok"
    IN  /\ Env(~Dirty(sd) \/ out = "ok")
        /\ remote' = IF done THEN [remote EXCEPT ![sd.path] = FdContent(sd.fd)]
                     ELSE remote
        /\ statc' = IF done THEN [statc EXCEPT ![sd.path] = Len(FdContent(sd.fd))]
                    ELSE statc

\* A sync that clears the modified flag before it knows what ne_put returns.
SyncedClearing(sd, out) ==
    [sd EXCEPT !.modified = FALSE,
               !.synced = (SyncRet(sd, out).ret = 0),
               !.sync_failed = (SyncRet(sd, out).ret < 0)]

\* The handle after a sync: the code changes none of its fields.
Synced(sd, out) ==
    IF SyncRet(sd, out).ret = 0
    THEN [sd EXCEPT !.synced = TRUE, !.sync_failed = FALSE]
    ELSE [sd EXCEPT !.sync_failed = TRUE]

ldb_filecache_sync(p, out) ==
    /\ pc[p] = "open"
    /\ SyncEffect(p, out)
    /\ sdata' = [sdata EXCEPT ![p] = Synced(sdata[p], out)]
    /\ UNCHANGED <<store, files, pc, loc, opens>>

\* ldb_filecache_close: the descriptor is closed; the handle is no more.
ldb_filecache_close(sd) == NULL

\* The handle after ldb_filecache_release: closed only when the sync
\* succeeded (lines 392-399).
Released(sd, out) ==
    IF SyncRet(sd, out).ret < 0 THEN sd ELSE ldb_filecache_close(sd)

\* ldb_filecache_release.  The caller drops the handle either way; a
\* descriptor left open stays with the thread until its next open.
ldb_filecache_release(p, out) ==
    /\ pc[p] = "open"
    /\ SyncEffect(p, out)
    /\ sdata' = [sdata EXCEPT ![p] = Released(sdata[p], out)]
    /\ files' = IF Released(sdata[p], out) = NULL
                THEN Reclaim(files, HeldByOthers(p)) ELSE files
    /\ pc' = [pc EXCEPT ![p] = "idle"]
    /\ UNCHANGED <<store, loc, opens>>

\* ----------------------------------------------------- delete, time

\* ldb_filecache_delete: leveldb_delete of the record, which may fail.
ldb_filecache_delete(path, del_ok) ==
    /\ \A p \in Procs : pc[p] # "crashed"
    /\ store[path] # NULL
    /\ Env(del_ok)
    /\ store' = IF del_ok THEN [store EXCEPT ![path] = NULL] ELSE store
    /\ UNCHANGED <<remote, statc, files, pc, sdata, loc, opens>>

\* A timestamp one second later.
Older(t) == IF Now - t >= Horizon THEN t ELSE t - 1

OlderPdata(pdata) ==
    IF pdata = NULL THEN NULL
    ELSE [pdata EXCEPT !.last_server_update = Older(@)]

\* The clock advances by a second.
Tick ==
    /\ store' = [q \in Paths |-> OlderPdata(store[q])]
    /\ store' # store
    /\ UNCHANGED <<remote, statc, files, pc, sdata, loc, faults, opens>>

\* One call thread, in an environment whose every call may fail.
Next ==
    \/ ldb_filecache_open(Main)
    \/ FreshOpen(Main)
    \/ \E out \in RequestOutcomes : Request(Main, out)
    \/ Finish(Main)
    \/ \E put_ok \in BOOLEAN : On304(Main, put_ok)
    \/ Open304(Main)
    \/ \E mk_ok \in BOOLEAN, n \in 0..MaxLen : On200(Main, mk_ok, n)
    \/ \E put_ok \in BOOLEAN : Commit(Main, put_ok)
    \/ \E ul_ok \in BOOLEAN : UnlinkOld(Main, ul_ok)
    \/ \E size \in 1..MaxLen, offset \in 0..(MaxLen - 1) :
           ldb_filecache_read(Main, size, offset)
    \/ \E b \in Bufs, offset \in 0..(MaxLen - 1), wr_ok \in BOOLEAN :
           ldb_filecache_write(Main, b, offset, wr_ok)
    \/ \E s \in 0..MaxTrunc : ldb_filecache_truncate(Main, s)
    \/ \E out \in SyncOutcomes : ldb_filecache_sync(Main, out)
    \/ \E out \in SyncOutcomes : ldb_filecache_release(Main, out)
    \/ \E path \in Paths, del_ok \in BOOLEAN : ldb_filecache_delete(path, del_ok)
    \/ Tick

Spec == Init /\ [][Next]_vars

\* The call threads together, in an environment whose calls succeed.
NextConc ==
    \/ \E p \in Procs, path \in Paths, flags \in AccessModes :
           OpenReplace(p, path, flags, TRUE)
    \/ \E p \in Procs, path \in Paths, flags \in AccessModes :
           OpenResolve(p, path, flags, TRUE)
    \/ \E p \in Procs : FreshOpen(p)
    \/ \E p \in Procs : Request(p, "status")
    \/ \E p \in Procs : On304(p, TRUE)
    \/ \E p \in Procs : Open304(p)
    \/ \E p \in Procs : On200(p, TRUE, Len(loc[p].body))
    \/ \E p \in Procs : Commit(p, TRUE)
    \/ \E p \in Procs : UnlinkOld(p, TRUE)
    \/ \E p \in Procs, size \in 1..MaxLen, offset \in 0..(MaxLen - 1) :
           ldb_filecache_read(p, size, offset)
    \/ \E p \in Procs, b \in Bufs, offset \in 0..(MaxLen - 1) :
           ldb_filecache_write(p, b, offset, TRUE)
    \/ \E p \in Procs, s \in 0..MaxTrunc : ldb_filecache_truncate(p, s)
    \/ \E p \in Procs : ldb_filecache_sync(p, "ok")
    \/ \E p \in Procs : ldb_filecache_release(p, "ok")
    \/ \E path \in Paths : ldb_filecache_delete(path, TRUE)
    \/ Tick

SpecConc == Init /\ [][NextConc]_vars

\* ------------------------------------------------------------ properties

\* The Cache Entry of a path is within the freshness window.
FreshEntry(path) ==
    store[path] # NULL /\ (Now - store[path].last_server_update) <= REFRESH_INTERVAL

\* C1, P1 (freshness window): a resolve-open of a path whose Cache Entry was
\* revalidated at most REFRESH_INTERVAL ago goes to no remote request, and
\* its open of the cached file returns a descriptor on the file the entry
\* names and leaves the entry as it is.
P1_FreshnessWindow ==
    [][\A p \in Procs :
          /\ (pc[p] = "idle" /\ pc'[p] = "request") => ~FreshEntry(loc'[p].path)
          /\ (pc[p] = "fresh_open" /\ pc'[p] # "fresh_open") =>
                 /\ pc'[p] = "open"
                 /\ sdata'[p].fd.file = loc[p].pdata.filename
                 /\ store' = store]_vars

\* C2, P3 (replacement atomicity): a handle that can only read (its
\* descriptor was opened by name) and is open on a generation that a
\* full-content replacement has since unlinked, the Cache Entry naming a later
\* generation, reads exactly the bytes its file held when it was opened.
P3_ReplacementAtomicity ==
    \A p \in Procs, path \in Paths :
        (/\ pc[p] = "open"
         /\ sdata[p].path = path
         /\ ~sdata[p].fd.rdwr
         /\ ~Linked(sdata[p].fd.file)
         /\ store[path] # NULL
         /\ Linked(store[path].filename)
         /\ store[path].filename > sdata[p].fd.file) =>
            \A size \in 1..MaxLen, offset \in 0..(MaxLen - 1) :
                ReadBuf(sdata[p], size, offset) = PRead(sdata[p].opened, size, offset)

\* C3 (Cache Entry invariant): a step of ldb_get_fresh_fd that changes the
\* Cache Entry of a path commits the name of a file that was created and
\* holds the complete body of the response.
CacheEntryInvariant ==
    [][\A p \in Procs :
          (/\ pc[p] = "commit"
           /\ pc'[p] # "commit"
           /\ store'[loc[p].path] # store[loc[p].path]) =>
              /\ Linked(store'[loc[p].path].filename)
              /\ files[store'[loc[p].path].filename].content = loc[p].body]_vars

\* C4 (replacement commit ordering): in every state the file a stored Cache
\* Entry names, when it was ever created, still has its directory link.
CommitOrdering ==
    \A path \in Paths :
        (store[path] # NULL /\ store[path].filename \in 1..Len(files)) =>
            Linked(store[path].filename)

\* C5 (release always closes): a thread that is in no call holds no open
\* descriptor: its last release closed the handle whatever the sync returned.
ReleaseAlwaysCloses ==
    \A p \in Procs : pc[p] = "idle" => sdata[p] = NULL

\* C6, P5 (sync idempotence): on a writable handle that a sync has succeeded
\* on with no successful write since, a sync, alone or within release,
\* uploads nothing and returns success.
P5_SyncIdempotence ==
    [][\A p \in Procs, out \in SyncOutcomes :
          (/\ pc[p] = "open"
           /\ sdata[p].writable
           /\ sdata[p].synced
           /\ (ldb_filecache_sync(p, out) \/ ldb_filecache_release(p, out))) =>
              /\ ~Uploads(sdata[p], out)
              /\ SyncRet(sdata[p], out).ret = 0]_vars

\* C7, P6 (round trip): with no failure of the environment, once written
\* bytes have been uploaded for a path (the stat cache has the size of the
\* upload), a resolve-open that revalidates returns a descriptor whose
\* content is what the remote store holds, the bytes last uploaded.
P6_RoundTrip ==
    [][\A p \in Procs :
          (/\ pc[p] \in {"commit", "unlink", "open304"}
           /\ pc'[p] = "open"
           /\ statc[loc[p].path] >= 1
           /\ faults' = 0) =>
              files'[sdata'[p].fd.file].content = remote[loc[p].path]]_vars

\* C8, P2 (not-modified): the step that handles a 304 leaves an entry with
\* the file name and validator the request was made for and the current
\* time as last_server_update, and creates and unlinks no file; the open
\* that follows returns a descriptor on that file name.
P2_NotModified ==
    [][\A p \in Procs :
          /\ (pc[p] = "on304" /\ pc'[p] = "open304") =>
                 /\ store'[loc[p].path] # NULL
                 /\ store'[loc[p].path].filename = loc[p].pdata.filename
                 /\ store'[loc[p].path].etag = loc[p].pdata.etag
                 /\ store'[loc[p].path].last_server_update = Now
                 /\ files' = files
          /\ (pc[p] = "open304" /\ pc'[p] # "open304") =>
                 /\ pc'[p] = "open"
                 /\ sdata'[p].fd.file = loc[p].pdata.filename
                 /\ files' = files]_vars

\* C9, P4 (write gating): for a handle that is not writable, every write
\* returns 0 with EBADF, leaves the cache files and the modified flag as they
\* are, and no sync of the handle afterwards uploads.
P4_WriteGating ==
    \A p \in Procs :
        (pc[p] = "open" /\ ~sdata[p].writable) =>
            \A b \in Bufs, offset \in 0..(MaxLen - 1), wr_ok \in BOOLEAN :
                /\ WriteRet(sdata[p], b, wr_ok) = Returned(0, EBADF)
                /\ WriteFiles(sdata[p], b, offset, wr_ok) = files
                /\ Written(sdata[p], wr_ok).modified = sdata[p].modified
                /\ \A out \in SyncOutcomes : ~Uploads(Written(sdata[p], wr_ok), out)

\* C9: a handle that is not writable is open on a descriptor that the file
\* system would let write, on a file that has bytes to lose.
P4_Witness ==
    \E p \in Procs :
        /\ pc[p] = "open"
        /\ ~sdata[p].writable
        /\ sdata[p].fd.rdwr
        /\ FdContent(sdata[p].fd) # <<>>

\* C10 (write-back publishes an entry): when release returns with success on
\* a handle of a replace-open that has written bytes and been synced, the
\* path has a Cache Entry within the freshness window.
WriteBackPublishes ==
    [][\A p \in Procs :
          (/\ pc[p] = "open"
           /\ sdata[p].filename # TemplateName
           /\ sdata[p].synced
           /\ FdContent(sdata[p].fd) # <<>>
           /\ pc'[p] = "idle"
           /\ sdata'[p] = NULL) =>
              /\ store'[sdata[p].path] # NULL
              /\ (Now - store'[sdata[p].path].last_server_update) <= REFRESH_INTERVAL]_vars

\* C11 (modified flag meaning): a handle that has just been attached, by a
\* replace-open or by a resolve-open, has modified false, and modified becomes
\* true only in a step of ldb_filecache_write whose pwrite succeeds.
ModifiedFlagMeaning ==
    [][\A p \in Procs :
          /\ (pc[p] # "open" /\ pc'[p] = "open") => ~sdata'[p].modified
          /\ (pc[p] = "open" /\ pc'[p] = "open"
                /\ ~sdata[p].modified /\ sdata'[p].modified) =>
                 \E b \in Bufs, offset \in 0..(MaxLen - 1) :
                     /\ ldb_filecache_write(p, b, offset, TRUE)
                     /\ Writes(sdata[p], TRUE)]_vars

\* C12 (access-flag derivation): the handle an open attaches is readable
\* exactly when the requested mode is O_RDONLY or O_RDWR and writable exactly
\* when it is O_WRONLY or O_RDWR, for a replace-open and for a resolve-open.
AccessFlagDerivation ==
    [][\A p \in Procs :
          /\ \A path \in Paths, flags \in AccessModes :
                 (OpenReplace(p, path, flags, TRUE) /\ pc'[p] = "open") =>
                     /\ sdata'[p].readable = (flags \in {O_RDONLY, O_RDWR})
                     /\ sdata'[p].writable = (flags \in {O_WRONLY, O_RDWR})
          /\ (pc[p] \in {"fresh_open", "open304", "commit", "unlink"}
                /\ pc'[p] = "open") =>
                 /\ sdata'[p].readable = (loc[p].flags \in {O_RDONLY, O_RDWR})
                 /\ sdata'[p].writable = (loc[p].flags \in {O_WRONLY, O_RDWR})]_vars

\* C13 (store errors are not cache misses): a resolve-open whose store get
\* fails ends there, with no handle: it goes on to no remote request.
StoreErrorsPropagate ==
    [][\A p \in Procs, path \in Paths, flags \in AccessModes :
          OpenResolve(p, path, flags, FALSE) =>
              /\ pc'[p] = "idle"
              /\ sdata'[p] = NULL
              /\ store' = store
              /\ files' = files]_vars

\* C14 (concurrent cold resolves): when a resolve-open that found no Cache
\* Entry commits its full-content response after another thread's
\* resolve-open has committed its own, each has a descriptor on its own file
\* holding the complete body, the entry names the file of the later commit,
\* and the file of the earlier commit has lost its directory link and keeps
\* its bytes for its caller's descriptor.
ConcurrentColdResolves ==
    [][\A p \in Procs, q \in Procs :
          (/\ p # q
           /\ pc[q] = "commit"
           /\ pc'[q] = "open"
           /\ ~loc[q].unlink_old
           /\ pc[p] = "open"
           /\ sdata[p].fd.rdwr
           /\ sdata[p].filename = TemplateName
           /\ store[loc[q].path] # NULL
           /\ store[loc[q].path].filename = sdata[p].fd.file) =>
              /\ sdata'[q].fd.file # sdata[p].fd.file
              /\ files'[sdata'[q].fd.file].content = loc[q].body
              /\ store'[loc[q].path].filename = sdata'[q].fd.file
              /\ files'[sdata[p].fd.file].content = files[sdata[p].fd.file].content
              /\ ~files'[sdata[p].fd.file].linked]_vars

\* C15 (sync failure is retryable): a sync of a writable, modified handle
\* that fails for want of a session or in the PUT returns a negative result
\* and leaves the modified flag true and the cache files, the bytes of the
\* handle's file and the stat cache as they were; the next sync uploads.
SyncFailureRetryable ==
    [][\A p \in Procs, out \in {"no_session", "put_failed"} :
          (/\ pc[p] = "open"
           /\ Dirty(sdata[p])
           /\ ldb_filecache_sync(p, out)) =>
              /\ SyncRet(sdata[p], out).ret < 0
              /\ sdata'[p].modified
              /\ files' = files
              /\ statc' = statc
              /\ Uploads(sdata'[p], "ok")
              /\ files'[sdata'[p].fd.file].content = FdContent(sdata[p].fd)]_vars

\* C15: the last sync of a writable, modified handle with written bytes has
\* failed; the handle is open and the remote store does not have the bytes.
SyncFailureWitness ==
    \E p \in Procs :
        /\ pc[p] = "open"
        /\ sdata[p].sync_failed
        /\ Dirty(sdata[p])
        /\ FdContent(sdata[p].fd) = <<1>>
        /\ remote[sdata[p].path] # FdContent(sdata[p].fd)

\* C16 (validator follows content): with no failure of the environment, the
\* step of a resolve-open that commits a full-content response leaves a
\* Cache Entry whose validator is the one the response carried, whether or
\* not an entry was there before.
ValidatorFollowsContent ==
    [][\A p \in Procs :
          (/\ pc[p] = "commit"
           /\ pc'[p] # "commit"
           /\ faults' = 0
           /\ store'[loc[p].path] # store[loc[p].path]) =>
              store'[loc[p].path].etag = ETag(loc[p].body)]_vars


\* C17 (published generations are read-only): a cache file that a Cache
\* Entry names, and that keeps its directory link, holds the same bytes
\* after every step of every operation on every handle.
PublishedReadOnly ==
    [][\A path \in Paths :
          (/\ store[path] # NULL
           /\ Linked(store[path].filename)
           /\ files'[store[path].filename].linked) =>
              files'[store[path].filename].content =
                  files[store[path].filename].content]_vars


\* C18 (unhandled status is a clean failure): when the conditional fetch of a
\* resolve-open fails to begin or ends with a status other than 304 and 200,
\* ldb_get_fresh_fd reaches its end with no descriptor, ldb_filecache_open
\* returns a failure with no handle attached, and from the start of the call
\* to its end no step changes the Cache Entries, the cache files or their
\* links.
UnhandledStatusCleanFailure ==
    [][\A p \in Procs :
          /\ (pc[p] = "idle" /\ pc'[p] = "request") =>
                 store' = store /\ files' = files
          /\ (pc[p] = "request" /\ pc'[p] = "finish") =>
                 /\ loc'[p].ret_fd = NoFd
                 /\ store' = store
                 /\ files' = files
          /\ (pc[p] = "finish" /\ pc'[p] # "finish") =>
                 /\ OpenRet(loc[p].ret_fd).ret < 0
                 /\ pc'[p] = "idle"
                 /\ sdata'[p] = NULL
                 /\ store' = store
                 /\ files' = files]_vars

\* C18: a fetch has ended without a descriptor while the path has a Cache
\* Entry whose cache file is linked and holds bytes.
UnhandledStatusWitness ==
    \E p \in Procs :
        /\ pc[p] = "finish"
        /\ loc[p].ret_fd = NoFd
        /\ loc[p].pdata # NULL
        /\ store[loc[p].path] # NULL
        /\ Linked(store[loc[p].path].filename)
        /\ files[store[loc[p].path].filename].content = <<1>>


\* C19 (delete is not undone by an in-flight resolve): when the Cache Entry
\* of a path was deleted after a resolve-open read it and the remote store
\* answers not-modified, the step that handles the answer leaves the path
\* without an entry.
DeleteNotUndone ==
    [][\A p \in Procs :
          (/\ pc[p] = "on304"
           /\ pc'[p] = "open304"
           /\ store[loc[p].path] = NULL) =>
              store'[loc[p].path] = NULL]_vars


\* C20 (no leaked named staging files): in a state where no operation is in
\* progress and no call of the environment has failed, every cache file that
\* has a directory link is named by the Cache Entry of some path or is the
\* private replacement file of a handle that is still open.
NoLeakedStagingFiles ==
    (/\ faults = 0
     /\ \A p \in Procs : pc[p] \in {"idle", "open"}) =>
        \A f \in 1..Len(files) :
            files[f].linked =>
                \/ \E path \in Paths : store[path] # NULL /\ store[path].filename = f
                \/ \E p \in Procs : pc[p] = "open" /\ sdata[p].filename = f

====
